---- MODULE Spec2Model ----
(***************************************************************************)
(* Orchestration core of the workflow agent (src/workflow_agent.py): the   *)
(* LangGraph state machine capture -> analyze -> human_input ->            *)
(* check_continuation -> enhancement_analysis -> enhancement_refinement,   *)
(* run by one control flow, and the pynput listener thread that sets the   *)
(* three flags of the global workflow_control dict.                        *)
(*                                                                         *)
(* The orchestrator is cut into atomic steps at every access to            *)
(* workflow_control, the only data shared with the listener; everything a  *)
(* node does between two such accesses is one step.  confidence_score is   *)
(* kept in tenths (0.9 is 9, 1.0 is 10).                                   *)
(***************************************************************************)
EXTENDS Integers, Sequences, FiniteSets, TLC

\* ---------------------------------------------------------------- bounds
MaxSteps == 2       \* capture cycles explored in a session

\* ------------------------------------------------------ program constants
Flags == {"transition_to_enhancement", "stop_workflow", "force_human_input"}

\* certainty_level values the analyzer may answer; Missing is an absent field
Missing == "<missing>"
CertaintyInputs == {"high", "medium", "low", "High", "unsure", Missing}

\* answers typed at the clarification prompt
Answers == {"", "saved the form"}

\* responses of the clarification-integration call: a dict with both keys,
\* a dict with neither, or a failure (exception, unparseable, invalid step)
IntegrationResponses == {"full", "empty", "fail"}

\* ------------------------------------------------------------ pure helpers
\* str.lower() on the certainty inputs
Lower(s) == IF s = "High" THEN "high" ELSE s

\* _certainty_to_score: mapping.get(certainty_level.lower(), 0.5)
_certainty_to_score(certainty_level) ==
    LET l == Lower(certainty_level) IN
    IF l = "high" THEN 9
    ELSE IF l = "medium" THEN 7
    ELSE IF l = "low" THEN 4
    ELSE 5

\* variant: the error response asks for no clarification
_generate_error_response_Silent(question) ==
    [action |-> "ANALYSIS_ERROR_OCCURRED",
     motivation |-> "Unable to automatically analyze this step",
     confidence_score |-> 0,
     needs_clarification |-> FALSE,
     clarification_question |-> question,
     shape_ok |-> TRUE]

\* the dict returned by _generate_error_response (both branches)
_generate_error_response(question) ==
    [action |-> "ANALYSIS_ERROR_OCCURRED",
     motivation |-> "Unable to automatically analyze this step",
     confidence_score |-> 0,
     needs_clarification |-> TRUE,
     clarification_question |-> question,
     shape_ok |-> TRUE]

\* the dict returned on the manual-trigger path of analyze_screenshot
ForcedResponse(basic) ==
    [action |-> "LLM_ACTION",
     motivation |-> "LLM_MOTIVATION",
     confidence_score |-> _certainty_to_score(basic.certainty),
     needs_clarification |-> TRUE,
     clarification_question |-> "[Manual trigger]",
     shape_ok |-> basic.shape_ok]

\* the dict returned on the combined (two-pass) path of analyze_screenshot
CombinedResponse(basic, needs, question) ==
    [action |-> "LLM_ACTION",
     motivation |-> "LLM_MOTIVATION",
     confidence_score |-> _certainty_to_score(basic.certainty),
     needs_clarification |-> needs,
     clarification_question |-> question,
     shape_ok |-> basic.shape_ok]

WorkflowStep(n, a, m, shot, c) ==
    [step_number |-> n, action |-> a, motivation |-> m,
     screenshot_path |-> shot, confidence_score |-> c]

\* variant: the callback flips the flag instead of setting it
SetFlag_Toggle(wc, f) == [wc EXCEPT ![f] = ~wc[f]]

\* listener callbacks: workflow_control[flag] = True
SetFlag(wc, f) == [wc EXCEPT ![f] = TRUE]

\* variant: the node sleeps before every capture
WaitsBeforeCapture_Always(n) == TRUE

\* `if state["current_step"] > 0:` of capture_workflow_node
WaitsBeforeCapture(n) == n > 0

\* variant: the branch writes True where the code writes False
ResetFlag_AsSet(wc, f) == [wc EXCEPT ![f] = TRUE]

\* the orchestrator's `workflow_control[flag] = False  # Reset flag`
ResetFlag(wc, f) == [wc EXCEPT ![f] = FALSE]

\* variant: the manual-trigger branch is taken, and the flag reset, without the test
ForceHonored_Untested(flag) == TRUE

\* `if workflow_control["force_human_input"]:` in analyze_screenshot
ForceHonored(flag) == flag

\* variant: the branch is taken in the capture phase whether or not the flag is set
TransitionHonored_Unsignalled(flag, ph) == ph = "capture"

\* `if workflow_control["transition_to_enhancement"] and state["phase"] == "capture":`
TransitionHonored(flag, ph) == flag /\ ph = "capture"

\* variant: the append is not under the else of the clarification test
AnalyzeAppends_Always(needs_clarification) == TRUE

\* variant: the step is left to human_input_node in every cycle
AnalyzeAppends_Never(needs) == FALSE

\* analyze_workflow_node appends the step only when no clarification is needed
AnalyzeAppends(needs_clarification) == ~needs_clarification

\* variant: the graph starts at the node that acts on the signals
EntryPoint_CheckFirst == "check_continuation"

\* workflow.set_entry_point("capture")
EntryPoint == "capture"

\* conditional edge after analyze
RouteAfterAnalyze(needs) == IF needs THEN "human_input" ELSE "check_continuation"

\* variant: the edge looks at analysis_complete only, not at the stop flag
RouteAfterCheck_IgnoringStop(stop, complete, ph) ==
    IF complete THEN "END"
    ELSE IF ph = "enhancement" THEN "enhancement_analysis"
    ELSE "capture"

\* variant: the edge has no branch for the enhancement phase
RouteAfterCheck_NoEnhancement(stop, complete, ph) ==
    IF stop \/ complete THEN "END" ELSE "capture"

\* conditional edge after check_continuation
RouteAfterCheck(stop, complete, ph) ==
    IF stop \/ complete THEN "END"
    ELSE IF ph = "enhancement" THEN "enhancement_analysis"
    ELSE "capture"

\* variant: the cycle's step takes the place of the last finalized one
Finalized_UpdatingLast(seq, step) ==
    IF seq = <<>> THEN <<step>> ELSE [seq EXCEPT ![Len(seq)] = step]

\* state["steps"].append(step)
Finalized(seq, step) == Append(seq, step)

\* conditional edge after enhancement_analysis
RouteAfterEnhancement(needs) == IF needs THEN "enhancement_refinement" ELSE "END"

\* clarification_question of _generate_error_response: the LLM's, or the default
ErrorQuestions == {"contextual question", "Could you describe what action you took"}

\* clarification_question of the second pass: .get("clarification_question", "")
ClarificationQuestions == {"", "llm question"}

NoBasic == [certainty |-> "", shape_ok |-> TRUE, present |-> FALSE]

\* ------------------------------------------------------------------ state
VARIABLES
    pc,                  \* position of the orchestrator in the graph
    workflow_control,    \* the global flags dict
    screenshots, steps, current_step, analysis_complete, needs_human_input,
    human_question, continue_workflow, phase, enhancement_complete,
    basic_analysis,      \* analyze_screenshot's local between the two flag accesses
    workflow_json,       \* sessions/<id>/workflow.json
    workflow_enhanced,   \* sessions/<id>/workflow_enhanced.json
    enhancer,            \* locals of WorkflowEnhancer.interactive_refinement_session
    hist                 \* history of the run, read by the properties only

state == <<screenshots, steps, current_step, analysis_complete, needs_human_input,
           human_question, continue_workflow, phase, enhancement_complete>>
locals == <<basic_analysis, enhancer>>
files == <<workflow_json, workflow_enhanced>>
vars == <<pc, workflow_control, state, locals, files, hist>>

\* save_workflow_data: filepath = <session folder> / "workflow.json"
filepath == "workflow.json"

\* variant: the enhanced workflow is dumped to the capture artifact's path
enhanced_file_AsCapture == "workflow.json"

\* enhanced_file = <session folder> / "workflow_enhanced.json", in
\* enhancement_refinement_node and in interactive_refinement_session
enhanced_file == "workflow_enhanced.json"

\* the content of the session file `name`
FileAt(name) == IF name = filepath THEN workflow_json ELSE workflow_enhanced

\* the content of the session file `name` after `content` was written to `target`
FileAfter(name, target, content) == IF target = name THEN content ELSE FileAt(name)

Absent == [exists |-> FALSE, steps |-> <<>>, kind |-> "none", context |-> <<>>]

\* interactive_refinement_session before load_workflow_session has returned
NoData == [loaded |-> FALSE, steps |-> <<>>, kind |-> "none", context |-> <<>>]
NoAnalysis == [present |-> FALSE, is_complete |-> FALSE, unclear_steps |-> <<>>,
               source |-> "none"]
EnhancerIdle == [workflow_data |-> NoData, analysis |-> NoAnalysis, questions |-> <<>>]

InitHist ==
    [stop_observed |-> "no",        \* where the orchestrator first read stop_workflow as true
     steps_at_stop |-> <<>>,        \* state["steps"] at that read
     saves |-> 0,                   \* completed save_workflow_data calls
     sig |-> [f \in Flags |-> "none"],   \* the latest listener set of each flag, until its reset
     reread |-> [f \in Flags |-> FALSE], \* a set was read as true a second time
     owed |-> [f \in Flags |-> FALSE],   \* flag was set when its node was entered, not reset since
     cycle_forced |-> FALSE,        \* force_human_input was set when this cycle's analyze began
     cycle_prompts |-> 0,           \* clarification prompts issued in this cycle
     force_stale |-> FALSE,         \* force_human_input outlived a whole analyze, no set since
     transitions |-> 0,             \* capture -> enhancement phase changes
     trans_repeated |-> FALSE,      \* transition_to_enhancement set again while still set
     repeats_consumed |-> FALSE,    \* trans_repeated when the flag was reset
     error |-> "none",              \* the exception that ended the run, if any
     stop_in_sleep |-> FALSE,       \* stop_workflow was set during the capture sleep
     answer |-> "none",             \* what was typed at this cycle's clarification prompt
     completeness_calls |-> 0,      \* Analyzer calls made by the completeness analysis
     report |-> "none",             \* what the completeness analysis printed
     synthesis |-> "none",          \* outcome of the enhancement-synthesis call
     enhanced_write |-> "none",     \* outcome of the write of workflow_enhanced.json
     quality_issues |-> "unparsed", \* whether the parsed report had a non-empty issue category
     question_call |-> "none",      \* outcome of the question-generation call
     asked |-> 0,                   \* refinement questions put to the human
     answered |-> FALSE,            \* one of the answers was not empty
     supersteps |-> 0]              \* nodes the graph run has started

\* run_workflow: initial_state, and the module-level workflow_control
Init ==
    /\ pc = EntryPoint
    /\ workflow_control = [f \in Flags |-> FALSE]
    /\ screenshots = <<>>
    /\ steps = <<>>
    /\ current_step = 0
    /\ analysis_complete = FALSE
    /\ needs_human_input = FALSE
    /\ human_question = ""
    /\ continue_workflow = TRUE
    /\ phase = "capture"
    /\ enhancement_complete = FALSE
    /\ basic_analysis = NoBasic
    /\ enhancer = EnhancerIdle
    /\ workflow_json = Absent
    /\ workflow_enhanced = Absent
    /\ hist = InitHist

Running == pc \notin {"END", "error"}

\* config={"recursion_limit": 50} of workflow.ainvoke
recursion_limit == 50

\* the graph starts node
Enter(node) == pc = node

\* the run has supersteps left: ainvoke starts another node
WithinLimit == hist.supersteps < recursion_limit

\* the history with that superstep counted
Stepped(h) == [h EXCEPT !.supersteps = @ + 1]

\* inside a node, between two accesses to workflow_control
Within(at) == pc = at

\* the orchestrator is between its read of flag f as true and its reset of f
InWindow(f) ==
    /\ hist.sig[f] \in {"observed", "coalesced"}
    /\ \/ f = "transition_to_enhancement" /\ pc = "cc_reset_trans"
       \/ f = "force_human_input" /\ pc = "an_reset_force"

\* the history of flag f once the orchestrator has reset it
AfterReset(h, f) ==
    [h EXCEPT !.owed[f] = FALSE,
              !.sig[f] = IF @ \in {"observed", "coalesced"} THEN "none" ELSE @]

\* ---------------------------------------------------------------- listener
\* on_key_combination / on_stop_combination / on_manual_question, on the
\* pynput thread, which run_workflow stops in its finally clause
ListenerSet(f) ==
    /\ Running
    /\ workflow_control' = SetFlag(workflow_control, f)
    /\ hist' = [hist EXCEPT
          !.sig[f] = IF InWindow(f) THEN "coalesced" ELSE "armed",
          !.force_stale = IF f = "force_human_input" THEN FALSE ELSE @,
          !.trans_repeated = IF f = "transition_to_enhancement"
                             THEN @ \/ workflow_control[f] ELSE @,
          !.stop_in_sleep = @ \/ (f = "stop_workflow" /\ pc = "capture_sleep")]
    /\ UNCHANGED <<pc, state, locals, files>>

Listener == \E f \in Flags : ListenerSet(f)

\* ----------------------------------------------------------------- capture
\* capture_workflow_node up to the sleep
capture_workflow_node_unbounded ==
    /\ Enter("capture")
    /\ WithinLimit
    /\ IF ~continue_workflow
       THEN /\ pc' = "analyze"
            /\ hist' = Stepped(hist)
            /\ UNCHANGED <<screenshots, current_step>>
       ELSE IF WaitsBeforeCapture(current_step)
       THEN /\ pc' = "capture_sleep"
            /\ hist' = Stepped(hist)
            /\ UNCHANGED <<screenshots, current_step>>
       ELSE /\ pc' = "analyze"
            /\ screenshots' = Append(screenshots, current_step + 1)
            /\ current_step' = current_step + 1
            /\ hist' = Stepped(hist)
    /\ UNCHANGED <<workflow_control, steps, analysis_complete, needs_human_input,
                   human_question, continue_workflow, phase, enhancement_complete,
                   locals, files>>

\* capture_workflow_node in a session of at most MaxSteps captures
capture_workflow_node ==
    /\ current_step < MaxSteps
    /\ capture_workflow_node_unbounded

\* capture_workflow_node after `await asyncio.sleep(10)`
capture_workflow_node_after_sleep ==
    /\ Within("capture_sleep")
    /\ pc' = "analyze"
    /\ screenshots' = Append(screenshots, current_step + 1)
    /\ current_step' = current_step + 1
    /\ UNCHANGED hist
    /\ UNCHANGED <<workflow_control, steps, analysis_complete, needs_human_input,
                   human_question, continue_workflow, phase, enhancement_complete,
                   locals, files>>

\* ----------------------------------------------------------------- analyze
\* the tail of analyze_workflow_node, once analyze_screenshot has returned
\* `analysis`: build the WorkflowStep, then append it or ask the human, and
\* take the conditional edge (which reads the state only)
analyze_workflow_node_finish(analysis, h) ==
    IF ~analysis.shape_ok
    THEN \* pydantic rejects the step: the exception leaves the graph
         /\ pc' = "error"
         /\ hist' = [h EXCEPT !.error = "ValidationError",
                              !.force_stale = h.owed["force_human_input"]]
         /\ UNCHANGED <<steps, needs_human_input, human_question>>
    ELSE LET step == WorkflowStep(current_step, analysis.action, analysis.motivation,
                                  screenshots[Len(screenshots)],
                                  analysis.confidence_score)
             needs == analysis.needs_clarification
         IN /\ steps' = IF AnalyzeAppends(needs) THEN Finalized(steps, step) ELSE steps
            /\ needs_human_input' = needs
            /\ human_question' = IF needs THEN analysis.clarification_question
                                          ELSE human_question
            /\ pc' = RouteAfterAnalyze(needs)
            /\ hist' = [h EXCEPT !.force_stale = h.owed["force_human_input"]]

\* analyze_workflow_node / analyze_screenshot up to the first LLM call and
\* json.loads of its answer
analyze_workflow_node ==
    /\ Enter("analyze")
    /\ WithinLimit
    /\ screenshots # <<>>
    /\ LET h == [Stepped(hist) EXCEPT
                  !.owed["force_human_input"] = workflow_control["force_human_input"],
                  !.cycle_forced = workflow_control["force_human_input"],
                  !.cycle_prompts = 0]
       IN \/ \* the call or the parse raises: _generate_error_response
             \E q \in ErrorQuestions :
                /\ basic_analysis' = NoBasic
                /\ analyze_workflow_node_finish(_generate_error_response(q), h)
          \/ \* a JSON object came back
             \E c \in CertaintyInputs, ok \in BOOLEAN :
                /\ basic_analysis' = [certainty |-> c, shape_ok |-> ok, present |-> TRUE]
                /\ pc' = "an_read_force"
                /\ hist' = h
                /\ UNCHANGED <<steps, needs_human_input, human_question>>
    /\ UNCHANGED <<workflow_control, screenshots, current_step, analysis_complete,
                   continue_workflow, phase, enhancement_complete, enhancer, files>>

\* the analysis analyze_screenshot returns from `basic` once the flag was read:
\* building the dict raises KeyError when certainty_level is absent, and the
\* except clause answers with _generate_error_response
Returned(basic, response, q) ==
    IF basic.certainty = Missing THEN _generate_error_response(q) ELSE response

\* analyze_screenshot: `if workflow_control["force_human_input"]:` and, when
\* it is false, the second pass and the rest of analyze_workflow_node
analyze_screenshot_read_force ==
    /\ Within("an_read_force")
    /\ LET flag == workflow_control["force_human_input"]
           h == IF flag
                THEN [hist EXCEPT !.sig["force_human_input"] = "observed",
                                  !.reread["force_human_input"] =
                                      @ \/ hist.sig["force_human_input"] = "observed"]
                ELSE hist
       IN IF ForceHonored(flag)
          THEN /\ pc' = "an_reset_force"
               /\ hist' = h
               /\ UNCHANGED <<steps, needs_human_input, human_question, basic_analysis>>
          ELSE /\ basic_analysis' = NoBasic
               /\ \/ \* the second call or its parse raises
                     \E q \in ErrorQuestions : analyze_workflow_node_finish(_generate_error_response(q), h)
                  \/ \E needs \in BOOLEAN, cq \in ClarificationQuestions, q \in ErrorQuestions :
                        analyze_workflow_node_finish(Returned(basic_analysis,
                                               CombinedResponse(basic_analysis, needs, cq), q), h)
    /\ UNCHANGED <<workflow_control, screenshots, current_step, analysis_complete,
                   continue_workflow, phase, enhancement_complete, enhancer, files>>

\* analyze_screenshot: `workflow_control["force_human_input"] = False`, the
\* manual-trigger return, and the rest of analyze_workflow_node
analyze_screenshot_reset_force ==
    /\ Within("an_reset_force")
    /\ workflow_control' = ResetFlag(workflow_control, "force_human_input")
    /\ basic_analysis' = NoBasic
    /\ \E q \in ErrorQuestions :
          analyze_workflow_node_finish(Returned(basic_analysis, ForcedResponse(basic_analysis), q),
                        AfterReset(hist, "force_human_input"))
    /\ UNCHANGED <<screenshots, current_step, analysis_complete,
                   continue_workflow, phase, enhancement_complete, enhancer, files>>

\* ------------------------------------------------------------- human_input
\* human_input_node up to ask_human's input()
human_input_node ==
    /\ Enter("human_input")
    /\ WithinLimit
    /\ IF ~needs_human_input
       THEN /\ pc' = "check_continuation"
            /\ hist' = Stepped(hist)
       ELSE /\ pc' = "hi_wait"
            /\ hist' = [Stepped(hist) EXCEPT !.cycle_prompts = @ + 1]
    /\ UNCHANGED <<workflow_control, state, locals, files>>

\* variant: the fallback step is scored like an unrecognised certainty
ClarifiedStep_FallbackUnscored(answer, response, label) ==
    LET shot == screenshots[Len(screenshots)] IN
    IF response = "full"
    THEN WorkflowStep(current_step, "LLM_ACTION", "LLM_MOTIVATION", shot, 10)
    ELSE IF response = "empty"
    THEN WorkflowStep(current_step, "USER_PROVIDED_ACTION", answer, shot, 10)
    ELSE WorkflowStep(current_step, label, answer, shot, _certainty_to_score(""))

\* variant: the fallback step carries the derived label as its motivation too
ClarifiedStep_FallbackRelabelled(answer, response, label) ==
    LET shot == screenshots[Len(screenshots)] IN
    IF response = "full"
    THEN WorkflowStep(current_step, "LLM_ACTION", "LLM_MOTIVATION", shot, 10)
    ELSE IF response = "empty"
    THEN WorkflowStep(current_step, "USER_PROVIDED_ACTION", answer, shot, 10)
    ELSE WorkflowStep(current_step, label, label, shot, 10)

\* the step human_input_node builds from the answer and the integration call
ClarifiedStep(answer, response, label) ==
    LET shot == screenshots[Len(screenshots)] IN
    IF response = "full"
    THEN WorkflowStep(current_step, "LLM_ACTION", "LLM_MOTIVATION", shot, 10)
    ELSE IF response = "empty"
    THEN WorkflowStep(current_step, "USER_PROVIDED_ACTION", answer, shot, 10)
    ELSE WorkflowStep(current_step, label, answer, shot, 10)

\* _extract_action_from_human_input: the LLM's label, or the default
ActionLabels == {"LLM_LABEL", "USER_PERFORMED_ACTION"}

\* human_input_node from the answer on
human_input_node_answer ==
    /\ Within("hi_wait")
    /\ \E answer \in Answers, response \in IntegrationResponses, label \in ActionLabels :
          /\ (response # "fail" => label = "LLM_LABEL")
          /\ steps' = IF screenshots # <<>>
                      THEN Finalized(steps, ClarifiedStep(answer, response, label))
                      ELSE steps
          /\ hist' = [hist EXCEPT !.answer = answer]
    /\ needs_human_input' = FALSE
    /\ human_question' = ""
    /\ pc' = "check_continuation"
    /\ UNCHANGED <<workflow_control, screenshots, current_step, analysis_complete,
                   continue_workflow, phase, enhancement_complete, locals, files>>

\* ------------------------------------------------------ check_continuation
\* what save_workflow_data leaves in workflow.json: the dump of the steps, or,
\* when the store fails, the old file (open raised) or a truncated one
StoreOutcomes == {"ok", "open_fails", "dump_fails"}

Written(old, outcome, content) ==
    IF outcome = "ok" THEN [exists |-> TRUE, steps |-> content, kind |-> "capture",
                            context |-> <<>>]
    ELSE IF outcome = "open_fails" THEN old
    ELSE [exists |-> TRUE, steps |-> <<>>, kind |-> "truncated", context |-> <<>>]

\* save_workflow_data(session_id, state["steps"]) and what the node does
\* next, or the exception that leaves the graph
save_workflow_data(outcome, h, next) ==
    /\ workflow_json' = Written(workflow_json, outcome, steps)
    /\ IF outcome = "ok"
       THEN /\ pc' = next
            /\ hist' = [h EXCEPT !.saves = @ + 1]
       ELSE /\ pc' = "error"
            /\ hist' = [h EXCEPT !.error = "OSError"]

\* variant: the Stop branch goes on to the test of the transition flag
AfterStopBranch_FallsThrough == "cc_read_trans"

\* `return state` at the end of the Stop branch of check_continuation_node
AfterStopBranch == "route_check"

\* the history after the orchestrator has read flag f as `value`
Read(h, f, value) ==
    IF value
    THEN [h EXCEPT !.sig[f] = "observed",
                   !.reread[f] = @ \/ h.sig[f] = "observed"]
    ELSE h

\* the history after stop_workflow was read as true at `place`
SawStop(h, place) ==
    IF h.stop_observed = "no"
    THEN [h EXCEPT !.stop_observed = place, !.steps_at_stop = steps]
    ELSE h

\* check_continuation_node: `if workflow_control["stop_workflow"]:` and its branch
check_continuation_node ==
    /\ Enter("check_continuation")
    /\ WithinLimit
    /\ LET flag == workflow_control["stop_workflow"]
           h == Read([Stepped(hist) EXCEPT !.owed["stop_workflow"] = flag,
                                  !.owed["transition_to_enhancement"] =
                                      workflow_control["transition_to_enhancement"],
                                  !.cycle_forced = FALSE,
                                  !.cycle_prompts = 0,
                                  !.answer = "none"],
                     "stop_workflow", flag)
       IN IF flag
          THEN /\ continue_workflow' = FALSE
               /\ analysis_complete' = TRUE
               /\ \E outcome \in StoreOutcomes : save_workflow_data(outcome, SawStop(h, "node"),
                                                                     AfterStopBranch)
          ELSE /\ pc' = "cc_read_trans"
               /\ hist' = h
               /\ UNCHANGED <<continue_workflow, analysis_complete, workflow_json>>
    /\ UNCHANGED <<workflow_control, screenshots, steps, current_step, needs_human_input,
                   human_question, phase, enhancement_complete, locals, workflow_enhanced>>

\* check_continuation_node: the test of transition_to_enhancement and of the
\* phase, and the state updates of its branch
check_continuation_read_transition ==
    /\ Within("cc_read_trans")
    /\ LET flag == workflow_control["transition_to_enhancement"]
           h == Read(hist, "transition_to_enhancement", flag)
       IN IF TransitionHonored(flag, phase)
          THEN /\ phase' = "enhancement"
               /\ continue_workflow' = FALSE
               /\ analysis_complete' = FALSE
               /\ pc' = "cc_reset_trans"
               /\ hist' = [h EXCEPT !.transitions = @ + 1]
          ELSE /\ pc' = "route_check"
               /\ hist' = h
               /\ UNCHANGED <<phase, continue_workflow, analysis_complete>>
    /\ UNCHANGED <<workflow_control, screenshots, steps, current_step, needs_human_input,
                   human_question, enhancement_complete, locals, files>>

\* check_continuation_node: `workflow_control["transition_to_enhancement"] = False`
\* and the save that follows
check_continuation_reset_transition ==
    /\ Within("cc_reset_trans")
    /\ workflow_control' = ResetFlag(workflow_control, "transition_to_enhancement")
    /\ \E outcome \in StoreOutcomes :
          save_workflow_data(outcome,
              [AfterReset(hist, "transition_to_enhancement") EXCEPT
                           !.repeats_consumed = hist.trans_repeated,
                           !.trans_repeated = FALSE],
              "route_check")
    /\ UNCHANGED <<state, locals, workflow_enhanced>>

\* the conditional edge out of check_continuation
check_continuation_edge ==
    /\ Within("route_check")
    /\ LET flag == workflow_control["stop_workflow"]
       IN /\ pc' = RouteAfterCheck(flag, analysis_complete, phase)
          /\ hist' = IF flag THEN SawStop(Read(hist, "stop_workflow", flag), "edge")
                             ELSE hist
    /\ UNCHANGED <<workflow_control, state, locals, files>>

\* ------------------------------------------------------------- enhancement
\* quality_issues categories the completeness report may fill
IssueCategories == {"unclear_actions", "missing_context"}

\* variant: the except clause only prints
AfterAnalysisError_Unflagged(done) == done

\* state["enhancement_complete"] after the except clause of enhancement_analysis_node
AfterAnalysisError(done) == TRUE

\* variant: all(quality_issues.values()) in place of any(...)
has_issues_InEveryCategory(issues) == issues = IssueCategories

\* has_issues = any(quality_issues.values()), on the non-empty categories
has_issues(issues) == issues # {}

\* variant: the completeness analysis has no guard for an empty workflow
CompletenessSkipped_Never(workflow_steps) == FALSE

\* `if not steps:` of enhancement_analysis_node and analyze_workflow_completeness
CompletenessSkipped(workflow_steps) == workflow_steps = <<>>

\* enhancement_analysis_node and its conditional edge
enhancement_analysis_node ==
    /\ Enter("enhancement_analysis")
    /\ WithinLimit
    /\ IF CompletenessSkipped(steps)
       THEN /\ enhancement_complete' = TRUE
            /\ pc' = RouteAfterEnhancement(needs_human_input)
            /\ hist' = [Stepped(hist) EXCEPT !.report = "No workflow steps found"]
            /\ UNCHANGED <<needs_human_input, human_question>>
       ELSE \/ \* the call or the parse raises
               /\ enhancement_complete' = AfterAnalysisError(enhancement_complete)
               /\ pc' = RouteAfterEnhancement(needs_human_input)
               /\ hist' = [Stepped(hist) EXCEPT !.completeness_calls = @ + 1,
                                       !.report = "Error analyzing workflow"]
               /\ UNCHANGED <<needs_human_input, human_question>>
            \/ \E issues \in SUBSET IssueCategories :
               /\ hist' = [Stepped(hist) EXCEPT !.completeness_calls = @ + 1,
                                       !.report = "Analysis Results",
                                       !.quality_issues = IF issues = {} THEN "none"
                                                                          ELSE "some"]
               /\ IF has_issues(issues)
                     THEN /\ needs_human_input' = TRUE
                          /\ human_question' = "enhancement_refinement"
                          /\ pc' = RouteAfterEnhancement(TRUE)
                          /\ UNCHANGED enhancement_complete
                     ELSE /\ enhancement_complete' = TRUE
                          /\ pc' = RouteAfterEnhancement(needs_human_input)
                          /\ UNCHANGED <<needs_human_input, human_question>>
    /\ UNCHANGED <<workflow_control, screenshots, steps, current_step, analysis_complete,
                   continue_workflow, phase, locals, files>>

\* priority_questions lists the question generation may answer
QuestionLists == {<<>>, <<"q1", "q2">>}

\* the non-empty answers, in order: `if response: responses.append(response)`
RECURSIVE Responses(_, _)
Responses(answers, i) ==
    IF i > Len(answers) THEN <<>>
    ELSE IF answers[i] # "" THEN <<answers[i]>> \o Responses(answers, i + 1)
    ELSE Responses(answers, i + 1)

\* zip(questions, responses)
Zip(questions, responses) ==
    [i \in 1..(IF Len(questions) < Len(responses) THEN Len(questions) ELSE Len(responses))
        |-> <<questions[i], responses[i]>>]

\* _enhance_workflow_with_context and the dump to workflow_enhanced.json
_enhance_workflow_with_context(old, synthesis_ok, outcome, context) ==
    IF outcome = "open_fails" THEN old
    ELSE IF outcome = "dump_fails"
    THEN [exists |-> TRUE, steps |-> <<>>, kind |-> "truncated", context |-> <<>>]
    ELSE IF synthesis_ok
    THEN [exists |-> TRUE, steps |-> <<>>, kind |-> "enhanced", context |-> context]
    ELSE [exists |-> TRUE, steps |-> steps, kind |-> "capture", context |-> <<>>]

\* variant: the synthesis runs whenever the node got this far
SynthesisWanted_Always(responses) == TRUE

\* `if responses:` of enhancement_refinement_node
SynthesisWanted(responses) == responses # <<>>

\* enhancement_refinement_node
enhancement_refinement_node ==
    /\ Enter("enhancement_refinement")
    /\ WithinLimit
    /\ IF ~needs_human_input \/ human_question # "enhancement_refinement"
       THEN /\ hist' = Stepped(hist)
            /\ UNCHANGED <<needs_human_input, enhancement_complete, files>>
       ELSE /\ needs_human_input' = FALSE
            /\ enhancement_complete' = TRUE
            /\ \/ \* question generation raises
                  /\ hist' = [Stepped(hist) EXCEPT !.question_call = "failed"]
                  /\ UNCHANGED files
               \/ \E questions \in QuestionLists :
                  \E answers \in [1..Len(questions) -> {"", "a1", "a2"}] :
                     /\ \A i \in 1..Len(questions) : answers[i] \in {"", <<"a1", "a2">>[i]}
                     /\ LET responses == Responses(answers, 1)
                            h == [Stepped(hist) EXCEPT !.question_call = "ok",
                                              !.asked = Len(questions),
                                              !.answered = \E i \in DOMAIN answers : answers[i] # ""]
                        IN IF SynthesisWanted(responses)
                           THEN \E synthesis_ok \in BOOLEAN, outcome \in StoreOutcomes :
                                LET content == _enhance_workflow_with_context(
                                                   FileAt(enhanced_file), synthesis_ok,
                                                   outcome, Zip(questions, responses))
                                IN /\ workflow_enhanced' =
                                         FileAfter("workflow_enhanced.json", enhanced_file, content)
                                   /\ workflow_json' =
                                         FileAfter("workflow.json", enhanced_file, content)
                                   /\ hist' = [h EXCEPT
                                         !.synthesis = IF synthesis_ok THEN "ok" ELSE "failed",
                                         !.enhanced_write = IF outcome = "ok" THEN "ok" ELSE "failed"]
                           ELSE hist' = h /\ UNCHANGED files
    /\ pc' = "END"
    /\ UNCHANGED <<workflow_control, screenshots, steps, current_step, analysis_complete,
                   human_question, continue_workflow, phase, locals>>

\* ------------------------------------------- standalone refinement session
\* src/enhanced_analyzer.py: WorkflowEnhancer.interactive_refinement_session,
\* one control flow without listener, on the files of a finished session

\* the dict analyze_workflow_completeness returns without a call
NoStepsReport == [present |-> TRUE, is_complete |-> FALSE, unclear_steps |-> <<>>,
                  source |-> "No workflow steps found"]

\* the dict of its except clause
FailedReport == [present |-> TRUE, is_complete |-> FALSE, unclear_steps |-> <<>>,
                 source |-> "Analysis failed"]

\* unclear_steps lists _extract_unclear_steps may return
UnclearInputs == {<<>>, <<1>>, <<1, 2, 7>>}

\* unclear_steps[:3]
Take(seq, n) == SubSeq(seq, 1, IF Len(seq) < n THEN Len(seq) ELSE n)

RECURSIVE StepQuestions(_, _)
\* the per-step questions of _generate_fallback_questions
StepQuestions(workflow_steps, numbers) ==
    IF numbers = <<>> THEN <<>>
    ELSE LET n == Head(numbers)
             found == \E i \in 1..Len(workflow_steps) : workflow_steps[i].step_number = n
         IN (IF found THEN <<"motivation behind step " \o ToString(n)>> ELSE <<>>)
               \o StepQuestions(workflow_steps, Tail(numbers))

\* _generate_fallback_questions
_generate_fallback_questions(workflow_data, analysis) ==
    LET questions == IF ~analysis.is_complete
                     THEN <<"overall goal">>
                             \o StepQuestions(workflow_data.steps, Take(analysis.unclear_steps, 3))
                     ELSE <<>>
    IN IF questions = <<>> THEN <<"additional context">> ELSE questions

\* the answer typed to question i, when one is typed
AnswerTo(i) == "answer " \o ToString(i)

\* variant: `enhanced_workflow = workflow_data`, one dict under two names
enhanced_workflow_SameDict == "workflow_data"

\* `enhanced_workflow = workflow_data.copy()`: the name of a second dict
enhanced_workflow == "enhanced_workflow"

\* the dicts enhance_workflow_with_context holds when it returns, by name:
\* the parameter, and the copy whose keys "steps", "enhanced_at" and
\* "enhancement_context" the try block assigns after the synthesis parsed
EnhanceBody(workflow_data, additional_context, synthesis_ok) ==
    LET dicts == [name \in {"workflow_data", "enhanced_workflow"} |-> workflow_data]
    IN IF synthesis_ok
       THEN [dicts EXCEPT ![enhanced_workflow] =
                [@ EXCEPT !.steps = <<>>, !.kind = "enhanced",
                          !.context = additional_context]]
       ELSE dicts

\* enhance_workflow_with_context: the enhanced copy, or workflow_data itself
\* when the synthesis call or its parse raises
enhance_workflow_with_context(workflow_data, additional_context, synthesis_ok) ==
    IF synthesis_ok
    THEN EnhanceBody(workflow_data, additional_context, synthesis_ok)[enhanced_workflow]
    ELSE EnhanceBody(workflow_data, additional_context, synthesis_ok)["workflow_data"]

\* `with open(file, 'w') as f: json.dump(doc, f)` under the store's outcomes
Dumped(old, outcome, doc) ==
    IF outcome = "ok" THEN [exists |-> TRUE, steps |-> doc.steps, kind |-> doc.kind,
                            context |-> doc.context]
    ELSE IF outcome = "open_fails" THEN old
    ELSE [exists |-> TRUE, steps |-> <<>>, kind |-> "truncated", context |-> <<>>]

\* load_workflow_session, and the return of the session when it yields None
load_workflow_session ==
    /\ Enter("load_workflow_session")
    /\ IF ~workflow_json.exists
       THEN pc' = "END" /\ UNCHANGED <<enhancer, hist>>
       ELSE IF workflow_json.kind = "truncated"
       THEN /\ pc' = "error"
            /\ hist' = [hist EXCEPT !.error = "JSONDecodeError"]
            /\ UNCHANGED enhancer
       ELSE /\ pc' = "analyze_workflow_completeness"
            /\ enhancer' = [enhancer EXCEPT
                               !.workflow_data = [loaded |-> TRUE, steps |-> workflow_json.steps,
                                                    kind |-> workflow_json.kind,
                                                    context |-> workflow_json.context]]
            /\ UNCHANGED hist
    /\ UNCHANGED <<workflow_control, state, basic_analysis, files>>

\* analyze_workflow_completeness
analyze_workflow_completeness ==
    /\ Enter("analyze_workflow_completeness")
    /\ IF CompletenessSkipped(enhancer.workflow_data.steps)
       THEN /\ enhancer' = [enhancer EXCEPT !.analysis = NoStepsReport]
            /\ UNCHANGED hist
       ELSE /\ hist' = [hist EXCEPT !.completeness_calls = @ + 1]
            /\ \/ enhancer' = [enhancer EXCEPT !.analysis = FailedReport]
               \/ \E complete \in BOOLEAN, unclear \in UnclearInputs :
                     enhancer' = [enhancer EXCEPT !.analysis =
                                     [present |-> TRUE, is_complete |-> complete,
                                      unclear_steps |-> unclear, source |-> "llm"]]
    /\ pc' = "generate_refinement_questions"
    /\ UNCHANGED <<workflow_control, state, basic_analysis, files>>

\* generate_refinement_questions
generate_refinement_questions ==
    /\ Enter("generate_refinement_questions")
    /\ \/ \E questions \in QuestionLists : enhancer' = [enhancer EXCEPT !.questions = questions]
       \/ enhancer' = [enhancer EXCEPT !.questions =
                          _generate_fallback_questions(enhancer.workflow_data, enhancer.analysis)]
    /\ pc' = "refinement_answers"
    /\ UNCHANGED <<workflow_control, state, basic_analysis, files, hist>>

\* interactive_refinement_session from `if questions:` on: the answers, the
\* synthesis, the write of workflow_enhanced.json, and the visual
\* verification, which only prints
interactive_refinement_session ==
    /\ Enter("refinement_answers")
    /\ LET questions == enhancer.questions
       IN IF questions = <<>>
          THEN pc' = "END" /\ UNCHANGED <<files, hist, enhancer>>
          ELSE \E responses \in [1..Len(questions) -> {""} \cup {AnswerTo(i) : i \in 1..Len(questions)}] :
               \E synthesis_ok \in BOOLEAN, outcome \in StoreOutcomes :
                  /\ \A i \in 1..Len(questions) : responses[i] \in {"", AnswerTo(i)}
                  /\ LET content == Dumped(FileAt(enhanced_file), outcome,
                                           enhance_workflow_with_context(enhancer.workflow_data,
                                                    Zip(questions, responses), synthesis_ok))
                     IN /\ workflow_enhanced' =
                              FileAfter("workflow_enhanced.json", enhanced_file, content)
                        /\ workflow_json' = FileAfter("workflow.json", enhanced_file, content)
                  /\ hist' = [hist EXCEPT
                        !.asked = Len(questions),
                        !.answered = \E i \in DOMAIN responses : responses[i] # "",
                        !.synthesis = IF synthesis_ok THEN "ok" ELSE "failed",
                        !.enhanced_write = IF outcome = "ok" THEN "ok" ELSE "failed",
                        !.error = IF outcome = "ok" THEN @ ELSE "OSError"]
                  /\ enhancer' = [enhancer EXCEPT !.workflow_data =
                                     EnhanceBody(enhancer.workflow_data,
                                                 Zip(questions, responses),
                                                 synthesis_ok)["workflow_data"]]
                  /\ pc' = IF outcome = "ok" THEN "END" ELSE "error"
    /\ UNCHANGED <<workflow_control, state, basic_analysis>>

\* ------------------------------------------------------------ specification
Next ==
    \/ Listener
    \/ capture_workflow_node
    \/ capture_workflow_node_after_sleep
    \/ analyze_workflow_node
    \/ analyze_screenshot_read_force
    \/ analyze_screenshot_reset_force
    \/ human_input_node
    \/ human_input_node_answer
    \/ check_continuation_node
    \/ check_continuation_read_transition
    \/ check_continuation_reset_transition
    \/ check_continuation_edge
    \/ enhancement_analysis_node
    \/ enhancement_refinement_node

Spec == Init /\ [][Next]_vars

\* the steps of graph.ainvoke: every step but the listener's
Orchestrator ==
    \/ capture_workflow_node
    \/ capture_workflow_node_after_sleep
    \/ analyze_workflow_node
    \/ analyze_screenshot_read_force
    \/ analyze_screenshot_reset_force
    \/ human_input_node
    \/ human_input_node_answer
    \/ check_continuation_node
    \/ check_continuation_read_transition
    \/ check_continuation_reset_transition
    \/ check_continuation_edge
    \/ enhancement_analysis_node
    \/ enhancement_refinement_node

\* run_workflow awaits graph.ainvoke, which runs one node after the other on
\* the event loop: a node that can run does run, an LLM call returns or
\* raises, and the human answers every input().  Nothing obliges the human to
\* press a hotkey.
FairSpec == Spec /\ WF_vars(Orchestrator)

\* ---------------------------------------------- the enhancement phase alone
MaxStored == 2      \* steps in the workflow an enhancement run starts from

\* finalized sequences an enhancement run may start from
StepSequences ==
    {[i \in 1..n |-> WorkflowStep(i, "LLM_ACTION", "LLM_MOTIVATION", i, c)] :
        n \in 0..MaxStored, c \in {9, 10}}

\* The enhancement phase from its two entry points, for every workflow it may
\* be handed: enhancement_analysis_node as the graph calls it with a state in
\* phase "enhancement" whose steps were saved at the transition, and
\* interactive_refinement_session on the files of a session (none, the
\* capture artifact, or what a failed dump left).
EnhancementInit ==
    /\ workflow_control = [f \in Flags |-> FALSE]
    /\ needs_human_input = FALSE
    /\ human_question = ""
    /\ continue_workflow = FALSE
    /\ analysis_complete = FALSE
    /\ enhancement_complete = FALSE
    /\ basic_analysis = NoBasic
    /\ enhancer = EnhancerIdle
    /\ workflow_enhanced = Absent
    /\ hist = InitHist
    /\ \/ \E stored \in StepSequences :
             /\ pc = "enhancement_analysis"
             /\ phase = "enhancement"
             /\ steps = stored
             /\ screenshots = [i \in 1..Len(stored) |-> i]
             /\ current_step = Len(stored)
             /\ workflow_json = Written(Absent, "ok", stored)
       \/ \E stored \in StepSequences, outcome \in StoreOutcomes :
             /\ pc = "load_workflow_session"
             /\ phase = "capture"
             /\ steps = <<>>
             /\ screenshots = <<>>
             /\ current_step = 0
             /\ workflow_json = Written(Absent, outcome, stored)

EnhancementNext ==
    \/ enhancement_analysis_node
    \/ enhancement_refinement_node
    \/ load_workflow_session
    \/ analyze_workflow_completeness
    \/ generate_refinement_questions
    \/ interactive_refinement_session

EnhancementSpec == EnhancementInit /\ [][EnhancementNext]_vars

\* ------------------------------------------------------ the capture node alone
\* capture_workflow_node applied to the WorkflowStates of its signature: the
\* run's own (continue_workflow true, as run_workflow builds it and as every
\* edge back to capture finds it) and those with continue_workflow false,
\* which check_continuation_node produces but never routes to capture.
CaptureInit ==
    /\ pc = "capture"
    /\ workflow_control \in [Flags -> BOOLEAN]
    /\ continue_workflow \in BOOLEAN
    /\ steps \in {stored \in StepSequences : Len(stored) < MaxSteps}
    /\ screenshots = [i \in 1..Len(steps) |-> i]
    /\ current_step = Len(steps)
    /\ analysis_complete = FALSE
    /\ needs_human_input = FALSE
    /\ human_question = ""
    /\ phase = "capture"
    /\ enhancement_complete = FALSE
    /\ basic_analysis = NoBasic
    /\ enhancer = EnhancerIdle
    /\ workflow_json = Absent
    /\ workflow_enhanced = Absent
    /\ hist = InitHist

CaptureNext ==
    \/ \E f \in Flags : pc \in {"capture", "capture_sleep"} /\ ListenerSet(f)
    \/ capture_workflow_node
    \/ capture_workflow_node_after_sleep

CaptureSpec == CaptureInit /\ [][CaptureNext]_vars

\* ------------------------------------------- the run without Stop or Ctrl+R
\* variant: run_workflow handles every exception as it handles Ctrl+C
run_workflow_catches_Any(e) == TRUE

\* the except clauses of run_workflow
run_workflow_catches(e) == e = "KeyboardInterrupt"

\* nodes of the graph
Nodes == {"capture", "analyze", "human_input", "check_continuation",
          "enhancement_analysis", "enhancement_refinement"}

\* workflow.ainvoke(initial_state, config={"recursion_limit": 50}) when a node
\* is due and the supersteps are used up: the graph raises
\* GraphRecursionError into run_workflow, whose handler, for the exceptions it
\* catches, saves the steps and returns
GraphRecursionError ==
    /\ pc \in Nodes
    /\ ~WithinLimit
    /\ IF run_workflow_catches("GraphRecursionError")
       THEN \E outcome \in StoreOutcomes :
               /\ workflow_json' = Written(workflow_json, outcome, steps)
               /\ pc' = IF outcome = "ok" THEN "END" ELSE "error"
               /\ hist' = IF outcome = "ok" THEN [hist EXCEPT !.saves = @ + 1]
                                            ELSE [hist EXCEPT !.error = "OSError"]
               /\ UNCHANGED workflow_enhanced
       ELSE /\ pc' = "error"
            /\ hist' = [hist EXCEPT !.error = "GraphRecursionError"]
            /\ UNCHANGED files
    /\ UNCHANGED <<workflow_control, state, locals>>

\* the analyzer is sure of every screenshot or asks once, the human answers
\* and the integration call succeeds: the inputs of a long session
Plain ==
    /\ basic_analysis.present =>
          (basic_analysis.certainty = "high" /\ basic_analysis.shape_ok)
    /\ human_question \in {"", "llm question"}
    /\ hist.answer \in {"none", "saved the form"}
    /\ \A i \in DOMAIN steps :
          /\ steps[i].action = "LLM_ACTION"
          /\ steps[i].motivation = "LLM_MOTIVATION"
          /\ steps[i].confidence_score \in {9, 10}

\* the capture loop when no hotkey is ever pressed, with the graph's bound on
\* the supersteps in place of MaxSteps
RecursionNext ==
    \/ capture_workflow_node_unbounded /\ Plain'
    \/ capture_workflow_node_after_sleep /\ Plain'
    \/ analyze_workflow_node /\ Plain'
    \/ analyze_screenshot_read_force /\ Plain'
    \/ human_input_node /\ Plain'
    \/ human_input_node_answer /\ Plain'
    \/ check_continuation_node /\ Plain'
    \/ check_continuation_read_transition /\ Plain'
    \/ check_continuation_edge /\ Plain'
    \/ GraphRecursionError

\* graph.ainvoke runs the nodes one after the other and every input() is
\* answered
RecursionSpec ==
    Init /\ [][RecursionNext]_vars /\ WF_vars(RecursionNext)

\* ------------------------------------------------------------------ claims
AnalyzePcs == {"analyze", "an_read_force", "an_reset_force"}
CheckPcs == {"check_continuation", "cc_read_trans", "cc_reset_trans"}
EnhancementPcs == {"enhancement_analysis", "enhancement_refinement",
                   "load_workflow_session", "analyze_workflow_completeness",
                   "generate_refinement_questions", "refinement_answers"}
CaptureLoopPcs == {"capture", "capture_sleep", "hi_wait", "human_input"}
                      \cup AnalyzePcs \cup {"check_continuation", "cc_read_trans"}

\* C1: in every reachable state the step_number values of the finalized
\* sequence are 1..len(steps) in order, without gap or repeat.
C1_StepNumbersContiguous ==
    \A i \in 1..Len(steps) : steps[i].step_number = i

\* two finalized steps, the first through a clarification, the second directly
C1_Witness ==
    /\ Len(steps) = 2
    /\ steps[1].confidence_score = 10
    /\ steps[2].confidence_score < 10
    /\ pc = "check_continuation"

\* C2: a run that reaches Terminal because stop_workflow was read as true has
\* persisted the steps (save_workflow_data) before Terminal.
C2_PersistBeforeTerminal ==
    (pc = "END" /\ hist.stop_observed # "no") => hist.saves >= 1

\* C3: when a session ends because of Stop, workflow.json holds exactly the
\* steps that were finalized when the orchestrator observed Stop.
C3_ArtifactIsStepsAtStop ==
    (pc = "END" /\ hist.stop_observed # "no") =>
        (workflow_json.exists /\ workflow_json.kind = "capture"
           /\ workflow_json.steps = hist.steps_at_stop)

\* C4: once the orchestrator has read stop_workflow as true, in the node or on
\* its outgoing edge, no step is appended and no screenshot is captured.
C4_NoGrowthAfterStop ==
    [][hist.stop_observed # "no" =>
          (steps' = steps /\ screenshots' = screenshots /\ current_step' = current_step)]_vars

\* Stop was first seen on the edge, after a cycle, and the run has ended
C4_Witness ==
    /\ pc = "END"
    /\ hist.stop_observed = "edge"
    /\ Len(steps) = 1
    /\ current_step < MaxSteps

\* C5: once phase is "enhancement" no capture-loop node starts again, and
\* screenshots, steps and current_step stay as they are.
C5_NoCaptureAfterEnhancement ==
    [][phase = "enhancement" =>
          (pc' \notin CaptureLoopPcs
             /\ UNCHANGED <<screenshots, steps, current_step>>)]_vars

\* the enhancement phase has run to Terminal with signals set after the transition
C5_Witness ==
    /\ phase = "enhancement"
    /\ pc = "END"
    /\ enhancement_complete
    /\ workflow_control["transition_to_enhancement"]
    /\ workflow_control["force_human_input"]

\* C6: however often transition_to_enhancement is set before it is consumed,
\* the session changes phase exactly once, and a set of the already set flag
\* leaves the program where a single set left it.
C6_OneTransition ==
    /\ [](/\ hist.transitions <= 1
          /\ (hist.transitions = 1 <=> phase = "enhancement")
          /\ (hist.repeats_consumed => hist.transitions = 1))
    /\ [][(~hist.trans_repeated /\ hist'.trans_repeated) =>
             UNCHANGED <<pc, workflow_control, state, locals, files>>]_vars

\* the flag was set more than once, then consumed by one phase change
C6_Witness ==
    /\ hist.repeats_consumed
    /\ hist.transitions = 1
    /\ pc = "enhancement_analysis"

\* C7: a cycle whose analyze began with force_human_input set issues exactly
\* one clarification prompt, and the flag does not outlive that analyze to
\* force the next cycle, whatever the analyzer call did.
C7_ForcedOnce ==
    /\ (pc = "check_continuation" /\ hist.cycle_forced) => hist.cycle_prompts = 1
    /\ ~hist.force_stale

\* C8: one set of a flag is read as true by the orchestrator at most once.
C8_ReadTrueOncePerSet ==
    \A f \in Flags : ~hist.reread[f]

\* C9: a set of transition_to_enhancement or force_human_input is either
\* covered by the true value the orchestrator has just read (the read/reset
\* window) or leaves the flag set for the orchestrator's next read.
C9_NoSetLost ==
    \A f \in {"transition_to_enhancement", "force_human_input"} :
        hist.sig[f] = "armed" => workflow_control[f]

\* the listener has set force_human_input between its read and its reset
C9_Witness ==
    /\ pc = "an_reset_force"
    /\ hist.sig["force_human_input"] = "coalesced"

\* C10: a flag that is set when its node begins (check_continuation for Stop
\* and TransitionToEnhancement, analyze for ForceHumanInput) is consumed by
\* that execution of the node and is not left set past it.
C10_ConsumedByNextNode ==
    /\ pc \notin AnalyzePcs => ~hist.owed["force_human_input"]
    /\ pc \notin CheckPcs => (~hist.owed["stop_workflow"]
                                /\ ~hist.owed["transition_to_enhancement"])

\* C11: when stop_workflow is set while capture_workflow_node is suspended in
\* its inter-capture wait, the wait ends without a capture: from that set on
\* no screenshot is taken and no step is appended.
C11_SleepPollsStop ==
    [][hist.stop_in_sleep => (screenshots' = screenshots /\ steps' = steps)]_vars

\* C12: the confidence_score of the analysis analyze_screenshot returns for a
\* parsed first-pass answer is 0.9 for certainty "high", 0.7 for "medium",
\* 0.4 for "low" and 0.5 for every other value and for an absent field, on
\* the manual-trigger return and on the combined return alike.
C12_CertaintyMapping ==
    basic_analysis.present =>
        LET c == basic_analysis.certainty
            claimed == IF c = "high" THEN 9
                       ELSE IF c = "medium" THEN 7
                       ELSE IF c = "low" THEN 4
                       ELSE 5
        IN \A q \in ErrorQuestions, needs \in BOOLEAN, cq \in ClarificationQuestions :
              /\ Returned(basic_analysis, ForcedResponse(basic_analysis), q).confidence_score
                    = claimed
              /\ Returned(basic_analysis, CombinedResponse(basic_analysis, needs, cq), q).confidence_score
                    = claimed

\* C13: when human_input_node has prompted in a cycle, the step of that cycle
\* is the one it appended and its confidence_score is 1.0, on the integration
\* path and on the fallback path, whatever the analysis before it returned.
C13_ClarifiedConfidence ==
    (pc = "check_continuation" /\ hist.cycle_prompts >= 1) =>
        /\ steps # <<>>
        /\ steps[Len(steps)].step_number = current_step
        /\ steps[Len(steps)].confidence_score = 10

\* the second cycle was clarified through the fallback path, default label
C13_Witness ==
    /\ pc = "check_continuation"
    /\ hist.cycle_prompts = 1
    /\ Len(steps) = 2
    /\ steps[2].action = "USER_PERFORMED_ACTION"
    /\ steps[2].confidence_score = 10
    /\ steps[1].confidence_score = 4

\* C14: a failure of the step-analysis calls never ends the run with an
\* error: it becomes a clarification request, so the error response's question
\* is pending only with needs_human_input set and the cycle on its way to the
\* prompt, and the step of a prompted cycle has confidence_score 1.0.
C14_AnalysisFailureRecovered ==
    /\ hist.error # "ValidationError"
    /\ human_question \in ErrorQuestions =>
           (needs_human_input /\ pc \in {"human_input", "hi_wait"})
    /\ (pc = "check_continuation" /\ hist.cycle_prompts >= 1) =>
           (Len(steps) = current_step /\ steps[Len(steps)].confidence_score = 10)

\* C15: a cycle in which human_input_node prompted has gained exactly one
\* step, numbered current_step, with confidence_score 1.0; when that step
\* comes from the fallback path (its action is the derived label) its
\* motivation is the answer typed at the prompt, verbatim.
C15_FallbackStepKept ==
    (pc = "check_continuation" /\ hist.cycle_prompts >= 1) =>
        /\ Len(steps) = current_step
        /\ LET s == steps[Len(steps)]
           IN /\ s.step_number = current_step
              /\ s.confidence_score = 10
              /\ s.action \in ActionLabels => s.motivation = hist.answer

\* the integration call failed after the answer and the label call answered
C15_Witness ==
    /\ pc = "check_continuation"
    /\ hist.cycle_prompts = 1
    /\ hist.answer = "saved the form"
    /\ Len(steps) = 1
    /\ steps[1].action = "LLM_LABEL"
    /\ steps[1].motivation = "saved the form"

\* C16: run on an empty step sequence, enhancement_analysis_node makes no
\* Analyzer call, prints its no-steps report, requests no refinement and the
\* graph ends; analyze_workflow_completeness on an empty workflow makes no
\* call either and reports is_complete false.
C16_EmptyShortCircuit ==
    /\ (phase = "enhancement" /\ steps = <<>> /\ pc # "enhancement_analysis") =>
          /\ pc = "END"
          /\ hist.completeness_calls = 0
          /\ hist.report = "No workflow steps found"
          /\ ~needs_human_input
          /\ human_question # "enhancement_refinement"
    /\ (enhancer.workflow_data.loaded /\ enhancer.workflow_data.steps = <<>>
          /\ enhancer.analysis.present) =>
          /\ ~enhancer.analysis.is_complete
          /\ enhancer.analysis.source = "No workflow steps found"
          /\ hist.completeness_calls = 0

\* the graph has ended after enhancement_analysis_node saw no steps
C16_Witness ==
    /\ phase = "enhancement"
    /\ steps = <<>>
    /\ pc = "END"
    /\ enhancement_complete
    /\ hist.report = "No workflow steps found"

\* C17: no step of the enhancement phase, analysis or refinement, in the
\* graph or in the standalone session, changes workflow.json or the
\* finalized steps in memory; what it writes goes to workflow_enhanced.json.
C17_CaptureArtifactUntouched ==
    [][(pc \in EnhancementPcs) =>
          (/\ workflow_json' = workflow_json
           /\ steps' = steps
           /\ (enhancer.workflow_data.loaded =>
                  enhancer'.workflow_data = enhancer.workflow_data))]_vars

\* an enhanced workflow was written next to the capture artifact
C17_Witness ==
    /\ pc = "END"
    /\ workflow_enhanced.exists
    /\ workflow_enhanced.kind = "enhanced"
    /\ workflow_json.exists
    /\ workflow_json.kind = "capture"
    /\ Len(workflow_json.steps) = 2

\* C18: when the enhancement-synthesis call has failed, the session has no
\* workflow_enhanced.json afterwards.
C18_NoArtifactOnSynthesisFailure ==
    hist.synthesis = "failed" => ~workflow_enhanced.exists

\* C19: a failed write of workflow.json or of workflow_enhanced.json ends the
\* run in an error that reaches the caller; the graph does not reach END
\* after it.
C19_WriteFailureIsFatal ==
    /\ hist.error = "OSError" => pc = "error"
    /\ hist.enhanced_write = "failed" => (pc = "error" /\ hist.error = "OSError")

\* C20: check_continuation_node takes its transition branch only on a flag
\* it read as true in phase "capture"; the branch sets phase to
\* "enhancement", resets the flag and saves the finalized steps, and unless
\* Stop is read the graph goes on to enhancement_analysis, which is entered
\* in no other way.
C20_TransitionToEnhancement ==
    /\ pc = "cc_reset_trans" =>
          /\ hist.sig["transition_to_enhancement"] \in {"observed", "coalesced"}
          /\ phase = "enhancement"
    /\ phase = "enhancement" => hist.transitions = 1
    /\ (phase = "enhancement" /\ pc \notin {"cc_reset_trans", "error"}) =>
          /\ workflow_json = Written(Absent, "ok", steps)
          /\ workflow_control["transition_to_enhancement"] =>
                 hist.sig["transition_to_enhancement"] = "armed"
    /\ pc = "enhancement_analysis" =>
          (phase = "enhancement" /\ hist.stop_observed = "no" /\ ~analysis_complete)
    /\ (pc = "END" /\ phase = "enhancement" /\ hist.stop_observed = "no") =>
          hist.report # "none"

\* the transition was honored after two cycles and enhancement_analysis is next
C20_Witness ==
    /\ pc = "enhancement_analysis"
    /\ phase = "enhancement"
    /\ Len(steps) = 2
    /\ workflow_json.steps = steps
    /\ ~workflow_control["transition_to_enhancement"]
    /\ hist.report = "none"

\* C21: check_continuation_node returns without the human's continue/end
\* answer only from its Stop branch or its transition branch; in every other
\* case it has prompted, and an answer to end has saved the steps and set
\* analysis_complete.  No step of the node is a prompt, so every other return
\* is a return without one.
C21_ContinuePrompt ==
    pc = "route_check" => (analysis_complete \/ phase = "enhancement")

\* C22: once the completeness report over a non-empty steps sequence is
\* parsed, the refinement node is entered exactly when one of the report's
\* quality-issue categories is non-empty; with every category empty the run
\* is at END with enhancement_complete set and no refinement has started.
C22_RefinementIffIssues ==
    /\ pc = "enhancement_refinement" =>
          (hist.quality_issues = "some" /\ steps # <<>> /\ ~enhancement_complete)
    /\ hist.quality_issues = "some" =>
          (pc = "enhancement_refinement" \/ hist.question_call # "none")
    /\ hist.quality_issues = "none" =>
          /\ pc = "END"
          /\ enhancement_complete
          /\ ~needs_human_input
          /\ hist.question_call = "none"

\* a report with a non-empty category has sent the run to the refinement node
C22_Witness ==
    /\ pc = "enhancement_refinement"
    /\ hist.quality_issues = "some"
    /\ hist.report = "Analysis Results"
    /\ needs_human_input

\* C23: after a failed completeness call, and after a failed
\* question-generation call in the refinement node, the run is at END, not
\* in an error, with enhancement_complete set, no refinement question put to
\* the human and no workflow_enhanced.json; a failed completeness call also
\* leaves the question generation uncalled.
C23_EnhancementFailureSkips ==
    /\ hist.report = "Error analyzing workflow" =>
          /\ pc = "END"
          /\ hist.error = "none"
          /\ enhancement_complete
          /\ hist.question_call = "none"
          /\ hist.asked = 0
          /\ ~workflow_enhanced.exists
    /\ hist.question_call = "failed" =>
          /\ pc = "END"
          /\ hist.error = "none"
          /\ enhancement_complete
          /\ ~needs_human_input
          /\ hist.asked = 0
          /\ hist.synthesis = "none"
          /\ ~workflow_enhanced.exists

\* the question generation has failed on a report that had issues
C23_Witness ==
    /\ pc = "END"
    /\ hist.report = "Analysis Results"
    /\ hist.quality_issues = "some"
    /\ hist.question_call = "failed"

\* C24: in the refinement node and in the standalone refinement session
\* alike, the enhancement synthesis has been called, and the write of
\* workflow_enhanced.json attempted, exactly when one of the answers the
\* human gave was not empty.
C24_SynthesisIffAnswered ==
    /\ hist.synthesis # "none" <=> hist.answered
    /\ hist.enhanced_write # "none" <=> hist.answered

\* C25: a capture cycle that has taken screenshot n leads to a finalized
\* step with step_number n or to END, and the orchestrator leaves the
\* capture, analyze and human-input nodes of that cycle.
C25_CycleEnds ==
    \A n \in 1..MaxSteps :
        (current_step = n /\ pc \in AnalyzePcs \cup {"human_input", "hi_wait"})
            ~> \/ \E i \in DOMAIN steps : steps[i].step_number = n
               \/ pc = "END"

\* C26: every step of the run leaves the finalized sequence as it was or
\* extends it: the steps before the step are a prefix of the steps after it,
\* through capture, clarification, the saves and the enhancement synthesis.
C26_StepsAppendOnly ==
    [][/\ Len(steps') >= Len(steps)
       /\ SubSeq(steps', 1, Len(steps)) = steps]_vars

\* two steps were finalized, one of them by the human's clarification, and
\* the enhancement synthesis has run over them
C26_Witness ==
    /\ pc = "END"
    /\ Len(steps) = 2
    /\ \E i \in 1..2 : steps[i].confidence_score = 10
    /\ hist.synthesis = "ok"

\* C27: in every reachable state in which needs_human_input is false,
\* human_question is the empty string.
C27_QuestionOnlyWhilePending ==
    ~needs_human_input => human_question = ""

\* C28: a step of the listener (the orchestrator stays where it is) changes
\* nothing of the WorkflowState and neither artifact; a step of the
\* orchestrator raises no flag, and its two resets leave their flag false.
C28_FlagWriters ==
    [][/\ (pc' = pc) => UNCHANGED <<state, files>>
       /\ (pc' # pc) =>
             /\ \A f \in Flags : workflow_control'[f] => workflow_control[f]
             /\ (pc = "an_reset_force") => ~workflow_control'["force_human_input"]
             /\ (pc = "cc_reset_trans") => ~workflow_control'["transition_to_enhancement"]]_vars

\* the listener raised the transition flag, the orchestrator reset it, and
\* the listener has since raised another flag over a saved sequence
C28_Witness ==
    /\ phase = "enhancement"
    /\ ~workflow_control["transition_to_enhancement"]
    /\ workflow_control["force_human_input"]
    /\ steps # <<>>
    /\ workflow_json.exists

\* C29: entered with continue_workflow false, the capture node changes
\* nothing and takes no screenshot; entered with it true, the node sleeps
\* exactly when current_step > 0, and the capture that follows appends one
\* screenshot reference, the one numbered current_step + 1, and adds one to
\* current_step, leaving the rest of the state, the flags and the files.
C29_CaptureEffect ==
    [][/\ (pc = "capture" /\ pc' # pc) =>
             IF ~continue_workflow
             THEN pc' = "analyze" /\ UNCHANGED <<state, workflow_control, files>>
             ELSE /\ (pc' = "capture_sleep") <=> (current_step > 0)
                  /\ (pc' = "capture_sleep") => UNCHANGED <<state, workflow_control, files>>
       /\ (\/ pc = "capture" /\ pc' = "analyze" /\ continue_workflow
           \/ pc = "capture_sleep" /\ pc' # pc) =>
             /\ pc' = "analyze"
             /\ screenshots' = Append(screenshots, current_step + 1)
             /\ current_step' = current_step + 1
             /\ UNCHANGED <<steps, analysis_complete, needs_human_input, human_question,
                            continue_workflow, phase, enhancement_complete,
                            workflow_control, files>>]_vars

\* the node was entered with continue_workflow false on a state that has a
\* step, and has returned it as it was
C29_Witness ==
    /\ pc = "analyze"
    /\ ~continue_workflow
    /\ current_step = 1
    /\ Len(screenshots) = 1

\* C30: the list generate_refinement_questions has returned, from the
\* analyzer's answer or from _generate_fallback_questions, has between 3 and
\* 7 questions.
C30_ThreeToSevenQuestions ==
    pc = "refinement_answers" =>
        (Len(enhancer.questions) >= 3 /\ Len(enhancer.questions) <= 7)

\* C31: in the context the refinement node hands to the synthesis, and that
\* the synthesis stores with the enhanced workflow, every answer stands next
\* to the question it was typed at: a1 is the answer to q1, a2 the answer to
\* q2, whichever of the two questions were skipped.
C31_AnswersPairedWithQuestions ==
    (workflow_enhanced.exists /\ workflow_enhanced.kind = "enhanced") =>
        \A i \in DOMAIN workflow_enhanced.context :
            /\ workflow_enhanced.context[i][2] = "a1" => workflow_enhanced.context[i][1] = "q1"
            /\ workflow_enhanced.context[i][2] = "a2" => workflow_enhanced.context[i][1] = "q2"

\* C32: a run in which no hotkey is pressed starts at most recursion_limit
\* nodes; it ends, and it ends in GraphRecursionError, raised out of
\* run_workflow when the supersteps are used up, with no save of the steps
\* finalized by then: workflow.json was never written.
C32_RecursionLimitEndsRun ==
    /\ [](hist.supersteps <= recursion_limit)
    /\ [](hist.supersteps = recursion_limit => (hist.saves = 0 /\ ~workflow_json.exists))
    /\ [](hist.error = "GraphRecursionError" =>
             /\ pc = "error"
             /\ hist.supersteps = recursion_limit
             /\ steps # <<>>)
    /\ <>(pc = "error" /\ hist.error = "GraphRecursionError")

\* the limit was hit in a session that had finalized twelve steps or more,
\* one of them after a clarification
C32_Witness ==
    /\ pc = "error"
    /\ hist.error = "GraphRecursionError"
    /\ Len(steps) >= 12
    /\ \E i \in DOMAIN steps : steps[i].confidence_score = 10
    /\ ~workflow_json.exists

\* C33: current_step is the number of screenshots taken and the finalized
\* sequence is as long, or one step short while the latest screenshot is
\* not yet finalized; whenever check_continuation is entered, and until the
\* run leaves it, every screenshot has its one step.
C33_OneStepPerScreenshot ==
    /\ current_step = Len(screenshots)
    /\ Len(steps) \in {current_step, current_step - 1}
    /\ pc \in CheckPcs \cup {"route_check"} => Len(steps) = current_step
    /\ \A i \in DOMAIN steps : steps[i].screenshot_path = screenshots[i]

\* check_continuation is entered for the second time, after a cycle whose
\* step analyze appended and a cycle whose step human_input appended
C33_Witness ==
    /\ pc = "check_continuation"
    /\ Len(steps) = 2
    /\ Len(screenshots) = 2
    /\ \E i, j \in 1..2 : steps[i].confidence_score = 10 /\ steps[j].confidence_score < 10

\* C34: enhancement_analysis is never entered on an empty steps sequence, a
\* workflow.json saved on Stop or at the transition holds at least one step,
\* and Stop is first read as true after a cycle has finalized a step, however
\* early the hotkeys were pressed.
C34_NeverEmptyAtEnhancement ==
    /\ pc = "enhancement_analysis" => steps # <<>>
    /\ phase = "enhancement" => steps # <<>>
    /\ hist.stop_observed # "no" => steps # <<>>
    /\ hist.saves >= 1 => steps # <<>>
    /\ (workflow_json.exists /\ workflow_json.kind = "capture") => workflow_json.steps # <<>>

\* both hotkeys were pressed before the first capture, and the first
\* check_continuation is entered with one step
C34_Witness ==
    /\ pc = "check_continuation"
    /\ Len(steps) = 1
    /\ workflow_control["stop_workflow"]
    /\ workflow_control["transition_to_enhancement"]
    /\ hist.stop_observed = "no"
    /\ ~workflow_json.exists

\* C35: every finalized step has confidence_score 0.4, 0.5, 0.7, 0.9 or
\* 1.0; the 0.0 of the error response, and its placeholder action, are in no
\* finalized step, and the step of a cycle that prompted the human has 1.0.
C35_ConfidenceValues ==
    /\ \A i \in DOMAIN steps :
          /\ steps[i].confidence_score \in {4, 5, 7, 9, 10}
          /\ steps[i].action # "ANALYSIS_ERROR_OCCURRED"
    /\ (pc = "check_continuation" /\ hist.cycle_prompts >= 1) =>
          steps[Len(steps)].confidence_score = 10
    /\ (pc = "check_continuation" /\ hist.cycle_prompts = 0) =>
          steps[Len(steps)].confidence_score \in {4, 5, 7, 9}

\* a step scored by an unrecognised certainty, then a cycle whose analysis
\* failed and whose step came from the human's answer
C35_Witness ==
    /\ pc = "check_continuation"
    /\ Len(steps) = 2
    /\ steps[1].confidence_score = 5
    /\ steps[2].confidence_score = 10
    /\ steps[2].motivation = "saved the form"
    /\ hist.cycle_prompts = 1

\* C36: when check_continuation_node is entered with stop_workflow and
\* transition_to_enhancement both set, it saves the steps and the run goes
\* to END (or the save fails and the run ends in its error); phase stays
\* "capture", no enhancement node runs and the transition flag stays set.
C36_StopBeforeTransition ==
    (hist.stop_observed = "node" /\ hist.owed["transition_to_enhancement"]) =>
        /\ phase = "capture"
        /\ hist.transitions = 0
        /\ workflow_control["transition_to_enhancement"]
        /\ hist.report = "none"
        /\ hist.question_call = "none"
        /\ pc \in {"route_check", "END", "error"}
        /\ pc = "error" => hist.error = "OSError"
        /\ pc # "error" =>
              /\ analysis_complete
              /\ ~continue_workflow
              /\ hist.saves = 1
              /\ workflow_json = Written(Absent, "ok", steps)

\* both flags were set when the node was entered, and the run is at END
C36_Witness ==
    /\ pc = "END"
    /\ hist.stop_observed = "node"
    /\ hist.owed["transition_to_enhancement"]
    /\ workflow_control["transition_to_enhancement"]
    /\ workflow_control["stop_workflow"]
    /\ phase = "capture"
    /\ workflow_json.exists

\* C37: at END the state is that of a stopped capture (phase "capture",
\* analysis_complete set, continue_workflow cleared) or that of a finished
\* enhancement (phase "enhancement", continue_workflow cleared,
\* enhancement_complete set).
C37_TerminalFlags ==
    pc = "END" =>
        \/ phase = "capture" /\ analysis_complete /\ ~continue_workflow
        \/ phase = "enhancement" /\ ~continue_workflow /\ enhancement_complete

\* C38: once stop_workflow is set the run reaches END, unless the store
\* refuses the save of the steps and the run ends in that error, and from
\* the moment the flag is set at most one more step is finalized.  (A run
\* waiting at capture with MaxSteps captures behind it is at the bound of the
\* model, not at a state of the program, and is left out.)
C38_StopLeadsToTerminal ==
    /\ (workflow_control["stop_workflow"] /\ ~(pc = "capture" /\ current_step = MaxSteps))
           ~> (pc = "END" \/ hist.error = "OSError")
    /\ \A n \in 0..MaxSteps :
           []((workflow_control["stop_workflow"] /\ Len(steps) = n) => [](Len(steps) <= n + 1))

\* C39: enhance_workflow_with_context leaves its input as it was: after the
\* session's call the loaded workflow data has its steps and no enhancement
\* fields it did not have; when the synthesis parsed, what is returned (and
\* written) has the synthesized steps, the enhancement mark and the context;
\* when the synthesis raised, what is returned is the input as loaded.  The
\* node of the graph likewise leaves the steps of the state alone and, when
\* its synthesis raised, writes the workflow data without enhancement fields.
C39_InputLeftAlone ==
    [][(pc \in {"refinement_answers", "enhancement_refinement"}) =>
       (/\ (pc = "refinement_answers" /\ enhancer.questions # <<>>) =>
              /\ enhancer'.workflow_data = enhancer.workflow_data
              /\ (enhancer.workflow_data.kind = "capture") =>
                     (enhancer'.workflow_data.kind = "capture"
                         /\ enhancer'.workflow_data.context = <<>>)
              /\ (hist'.synthesis = "ok" /\ hist'.enhanced_write = "ok") =>
                     /\ workflow_enhanced'.kind = "enhanced"
                     /\ Len(workflow_enhanced'.context) = Len(enhancer.questions)
                     /\ \A i \in DOMAIN enhancer.questions :
                           workflow_enhanced'.context[i][1] = enhancer.questions[i]
                     /\ workflow_enhanced'.context # <<>>
              /\ (hist'.synthesis = "failed" /\ hist'.enhanced_write = "ok") =>
                     /\ workflow_enhanced'.steps = enhancer.workflow_data.steps
                     /\ workflow_enhanced'.kind = enhancer.workflow_data.kind
                     /\ workflow_enhanced'.context = enhancer.workflow_data.context
        /\ (pc = "enhancement_refinement") =>
              /\ steps' = steps
              /\ (hist'.synthesis = "failed" /\ hist'.enhanced_write = "ok") =>
                     /\ workflow_enhanced'.steps = steps
                     /\ workflow_enhanced'.kind = "capture"
                     /\ workflow_enhanced'.context = <<>>
              /\ (hist'.synthesis = "ok" /\ hist'.enhanced_write = "ok") =>
                     workflow_enhanced'.kind = "enhanced")]_vars

\* the session ended with the enhanced workflow written, the loaded data
\* still holding the steps it was loaded with
C39_Witness ==
    /\ pc = "END"
    /\ enhancer.workflow_data.loaded
    /\ enhancer.workflow_data.steps # <<>>
    /\ enhancer.workflow_data.steps = workflow_json.steps
    /\ enhancer.workflow_data.kind = "capture"
    /\ hist.synthesis = "ok"
    /\ workflow_enhanced.kind = "enhanced"
    /\ workflow_enhanced.steps # enhancer.workflow_data.steps

====
